---- MODULE Spec2Model ----
(***************************************************************************)
(* State-machine model of sync-external-contributions (src/main.py).       *)
(*                                                                         *)
(* Text is modelled as a sequence of tokens: one token per character for   *)
(* the parts the regular expressions look into (shas, project ids, the     *)
(* separators, the line breaks), one token for a well-formed e-mail        *)
(* address, one token for an ISO-8601 date and one token for the literal   *)
(* "Synced from ".                                                         *)
(*                                                                         *)
(* A git commit object is identified by its history: the sequence of       *)
(* commit contents from the root to the commit itself.  A hash printed by  *)
(* %H is that sequence, so that a rewritten commit (other parent or other  *)
(* committer date) has another hash and the old object stays addressable.  *)
(* Histories are linear.  The sync repository is given by the history of   *)
(* its HEAD, which is what git log reads and git commit extends.           *)
(***************************************************************************)
EXTENDS Integers, Sequences, FiniteSets, TLC

\* ------------------------------------------------------------------ bounds
MaxRuns == 2
MaxSyncLen == 3
MaxSrcLen == 3

\* -------------------------------------------------------------- characters
HexChars == {"a", "b", "c", "d", "e", "f",
             "0", "1", "2", "3", "4", "5", "6", "7", "8", "9"}

\* \w of Python's re on a str pattern: the Unicode word characters.  Of
\* those the alphabet of the model has the ASCII ones and the letter
\* U+00E9, which stands for the word characters outside ASCII.
WordChars == HexChars \cup
             {"g", "h", "i", "j", "k", "l", "m", "n", "o", "p", "q", "r", "s",
              "t", "u", "v", "w", "x", "y", "z", "_",
              "A", "B", "C", "D", "E", "F", "G", "H", "I", "J", "K", "L", "M",
              "N", "O", "P", "Q", "R", "S", "T", "U", "V", "W", "X", "Y", "Z",
              "é"}

AllIn(s, chars) == \A i \in 1..Len(s) : s[i] \in chars

\* index of the first token of s at or after position from that is not in
\* chars; Len(s) + 1 when there is none
RECURSIVE FirstNotIn(_, _, _)
FirstNotIn(s, chars, from) ==
    IF from > Len(s) THEN Len(s) + 1
    ELSE IF s[from] \notin chars THEN from
    ELSE FirstNotIn(s, chars, from + 1)

\* index of the first token t of s at or after position from; Len(s) + 1
\* when there is none
RECURSIVE FirstIndexOf(_, _, _)
FirstIndexOf(s, t, from) ==
    IF from > Len(s) THEN Len(s) + 1
    ELSE IF s[from] = t THEN from
    ELSE FirstIndexOf(s, t, from + 1)

\* index of the first token of s at or after position from that is in
\* chars; Len(s) + 1 when there is none
RECURSIVE FirstIn(_, _, _)
FirstIn(s, chars, from) ==
    IF from > Len(s) THEN Len(s) + 1
    ELSE IF s[from] \in chars THEN from
    ELSE FirstIn(s, chars, from + 1)

\* the line boundaries of str.splitlines: the newline git ends a log entry
\* with, and the others (\r, \v, \f, \x1c to \x1e, \x85, U+2028, U+2029),
\* for which the token LineSep stands
Newline == "\n"
LineSep == "U+2028"
LineBreaks == {Newline, LineSep}

\* str.splitlines(): the text between the line boundaries; a boundary at
\* the end of the text opens no further line
RECURSIVE splitlines(_)
splitlines(text) ==
    IF text = <<>> THEN <<>>
    ELSE LET b == FirstIn(text, LineBreaks, 1)
         IN  <<SubSeq(text, 1, b - 1)>> \o splitlines(SubSeq(text, b + 1, Len(text)))

\* -------------------------------------------------------------- timestamps
\* datetime.datetime.fromisoformat on the ISO tokens of the model: the UTC
\* instant (hours since 2024-01-01T00:00Z) and the UTC offset (hours).
IsoTokens == {"2024-01-01T00:00:00+00:00", "2024-01-02T03:00:00+01:00"}

fromisoformat(tok) ==
    CASE tok = "2024-01-01T00:00:00+00:00" -> [utc |-> 0, off |-> 0]
      [] tok = "2024-01-02T03:00:00+01:00" -> [utc |-> 26, off |-> 1]

\* datetime.isoformat: the token whose wall-clock reading and offset are dt's
isoformat(dt) ==
    CASE dt.utc + dt.off = 0 /\ dt.off = 0 -> "2024-01-01T00:00:00+00:00"
      [] dt.utc + dt.off = 27 /\ dt.off = 1 -> "2024-01-02T03:00:00+01:00"

\* ------------------------------------------------------------------ Commit
None == <<>>

Commit(project_id, sha, timestamp, sync_target_sha) ==
    [project_id |-> project_id, sha |-> sha, timestamp |-> timestamp,
     sync_target_sha |-> sync_target_sha]

\* mutant of to_tuple: sync_target_sha takes part in equality
to_tuple_with_target(c) ==
    <<c.project_id, c.sha, c.timestamp.utc, c.sync_target_sha>>

\* Commit._to_tuple; aware datetimes compare and hash by their UTC instant
to_tuple(c) == <<c.project_id, c.sha, c.timestamp.utc>>

\* Commit.__eq__
CommitEq(c, d) == to_tuple(c) = to_tuple(d)

\* set.add / set.update of Python: an element equal to a member is dropped
RECURSIVE SetUpdate(_, _)
SetUpdate(S, seq) ==
    IF seq = <<>> THEN S
    ELSE LET c == Head(seq)
         IN  SetUpdate(IF \E d \in S : CommitEq(c, d) THEN S ELSE S \cup {c},
                       Tail(seq))

\* set.__sub__ of Python: the members of A equal to no member of B
SetDifference(A, B) == {a \in A : ~ \E b \in B : CommitEq(a, b)}

ShaSet(S) == {c.sha : c \in S}

\* the orders in which a Python set can be iterated
Orders(S) ==
    {f \in [1..Cardinality(S) -> S] :
        \A i, j \in 1..Cardinality(S) : f[i] = f[j] => i = j}

\* ------------------------------------------------------- source log reader
\* A source commit is [H, ae, aI]: its sha (hex characters), its author
\* e-mail (the text git has recorded: one token for a plain address, none
\* for an empty one, several for an address that holds commas, spaces or
\* line boundaries) and its author date (an ISO token).  A repository is
\* the sequence of its commits, oldest first.

\* the entry `git log --format=%H,%ae,%aI` prints for a commit
SourceLine(commit) == commit.H \o <<",">> \o commit.ae \o <<",">> \o <<commit.aI>>

\* stdout of the log query: the entries, newest commit first, a newline
\* after each
RECURSIVE SourceLog(_)
SourceLog(repo) ==
    IF repo = <<>> THEN <<>>
    ELSE SourceLine(repo[Len(repo)]) \o <<Newline>>
             \o SourceLog(SubSeq(repo, 1, Len(repo) - 1))

\* process.stdout.splitlines() of line 44
SourceLogLines(repo) == splitlines(SourceLog(repo))

\* `git log` exits 128 in a repository whose branch has no commit yet, and
\* check=True turns that into CalledProcessError
GitLogFails(repo) == repo = <<>>

NoMatch == [matched |-> FALSE]

\* SOURCE_LOG_RE.match(line): ^(sha [a-f0-9]+),(email [^,]+),(timestamp [^ ]+)$
SOURCE_LOG_RE(line) ==
    LET i == FirstNotIn(line, HexChars, 1)
        j == FirstIndexOf(line, ",", i + 1)
    IN  IF /\ i > 1
           /\ i <= Len(line)
           /\ line[i] = ","
           /\ j > i + 1
           /\ j < Len(line)
           /\ \A k \in (j + 1)..Len(line) : line[k] # " "
        THEN [matched |-> TRUE,
              sha |-> SubSeq(line, 1, i - 1),
              email |-> SubSeq(line, i + 1, j - 1),
              timestamp |-> SubSeq(line, j + 1, Len(line))]
        ELSE NoMatch

\* the test of line 49: match.group("email") in include_emails
EmailIncluded(email, include_emails) == email \in include_emails

\* fromisoformat raises ValueError on anything but one well-formed date
IsoParses(text) == Len(text) = 1 /\ text[1] \in IsoTokens

\* the error the generator raises on a line: RuntimeError when the line does
\* not match, ValueError when an included commit's date does not parse
LineError(include_emails, line) ==
    LET m == SOURCE_LOG_RE(line)
    IN  IF ~ m.matched THEN "RuntimeError"
        ELSE IF EmailIncluded(m.email, include_emails) /\ ~ IsoParses(m.timestamp)
        THEN "ValueError"
        ELSE ""

\* the first line of lines[from..] on which the generator raises, 0 when none
RECURSIVE FirstBadLine(_, _, _)
FirstBadLine(include_emails, lines, from) ==
    IF from > Len(lines) THEN 0
    ELSE IF LineError(include_emails, lines[from]) # "" THEN from
    ELSE FirstBadLine(include_emails, lines, from + 1)

\* the commits the generator yields from lines[from..], in order
RECURSIVE YieldSource(_, _, _, _)
YieldSource(project_id, include_emails, lines, from) ==
    IF from > Len(lines) THEN <<>>
    ELSE LET m == SOURCE_LOG_RE(lines[from])
             rest == YieldSource(project_id, include_emails, lines, from + 1)
         IN  IF EmailIncluded(m.email, include_emails)
             THEN <<Commit(project_id, m.sha, fromisoformat(m.timestamp[1]), None)>>
                  \o rest
             ELSE rest

\* get_commits_from_source, consumed to its end: the error it raises, if
\* any, and the commits it has yielded until then
get_commits_from_source(project_id, include_emails, repo) ==
    IF GitLogFails(repo)
    THEN [error |-> "CalledProcessError", commits |-> <<>>]
    ELSE LET lines == SourceLogLines(repo)
             bad == FirstBadLine(include_emails, lines, 1)
         IN  IF bad # 0
             THEN [error |-> LineError(include_emails, lines[bad]),
                   commits |-> YieldSource(project_id, include_emails,
                                           SubSeq(lines, 1, bad - 1), 1)]
             ELSE [error |-> "",
                   commits |-> YieldSource(project_id, include_emails, lines, 1)]

\* --------------------------------------------------------- sync log reader
\* A sync-repository commit is [subject, adate, cdate, patch]; the
\* repository is the sequence of the commits on its branch, oldest first,
\* and the hash of the i-th commit is the history SubSeq(repo, 1, i).  patch
\* names the file change the commit makes, NoPatch for an empty commit.  The
\* index of the work tree is the patch staged in it, NoPatch when clean.
NoPatch == ""

\* the file a commit made by hand adds, and the file found staged
Readme == "README"
Staged == "new"

FileNames == {Readme, Staged}

\* a patch, the files it adds and the files it deletes
PatchTable ==
    {<<NoPatch, {}, {}>>,
     <<Readme, {Readme}, {}>>,
     <<Staged, {Staged}, {}>>,
     <<"-README", {}, {Readme}>>,
     <<"-new", {}, {Staged}>>,
     <<"README new", {Readme, Staged}, {}>>,
     <<"-README -new", {}, {Readme, Staged}>>,
     <<"README -new", {Readme}, {Staged}>>,
     <<"-README new", {Staged}, {Readme}>>}

PatchOf(patch) == CHOOSE t \in PatchTable : t[1] = patch

\* the files of the tree of the commit whose history is given
RECURSIVE Tree(_)
Tree(history) ==
    IF history = <<>> THEN {}
    ELSE LET t == PatchOf(history[Len(history)].patch)
         IN  (Tree(SubSeq(history, 1, Len(history) - 1)) \cup t[2]) \ t[3]

\* what is staged when the index holds the tree `to` and HEAD the tree `from`
Staging(from, to) ==
    (CHOOSE t \in PatchTable : t[2] = to \ from /\ t[3] = from \ to)[1]

Clock == "now"
Earlier == "earlier"

\* A hash that text in a commit message spells out.  FixHash is the hash of
\* the object FixHistory; any other text names no object.
FixHash == "d4ff274"

\* what git makes of a revision given as text: the object, None when the
\* text names none
RevParse(text, named) ==
    IF Len(text) = 1 /\ text[1] \in DOMAIN named THEN named[text[1]] ELSE None

\* the entry `git log --format=%H,%aI,%s` prints for the n-th commit of
\* repo, split by splitlines.  %H and %aI hold no comma and no line
\* boundary, so the first line of an entry is given by its hash, its date
\* and the rest; a line that a boundary in the subject opens is plain text.
SyncEntryLines(repo, n) ==
    LET pieces == splitlines(repo[n].subject \o <<Newline>>)
    IN  [j \in 1..Len(pieces) |->
            IF j = 1
            THEN [head |-> TRUE, H |-> SubSeq(repo, 1, n), aI |-> repo[n].adate,
                  s |-> pieces[1]]
            ELSE [head |-> FALSE, H |-> None, aI |-> "", s |-> pieces[j]]]

\* process.stdout.splitlines() of line 75, newest commit first
RECURSIVE SyncLogLines(_, _)
SyncLogLines(repo, n) ==
    IF n = 0 THEN <<>>
    ELSE SyncEntryLines(repo, n) \o SyncLogLines(repo, n - 1)

SyncedPrefix == "Synced from "

\* the tail of SYNCED_LOG_RE: Synced from (\w+):([a-f0-9]+)$
SyncedTail(s) ==
    LET k == FirstNotIn(s, WordChars, 2)
    IN  IF /\ Len(s) >= 1
           /\ s[1] = SyncedPrefix
           /\ k > 2
           /\ k < Len(s)
           /\ s[k] = ":"
           /\ AllIn(SubSeq(s, k + 1, Len(s)), HexChars)
        THEN [matched |-> TRUE,
              project_id |-> SubSeq(s, 2, k - 1),
              sha |-> SubSeq(s, k + 1, Len(s))]
        ELSE NoMatch

\* SYNCED_LOG_RE.match(line):
\* ^(sync_target_sha [^,]+),(timestamp [^,]+),Synced from (\w+):([a-f0-9]+)$
\* The group sync_target_sha is given as the object the text names.
SYNCED_LOG_RE(line, named) ==
    LET a == FirstIndexOf(line.s, ",", 1)
        b == FirstIndexOf(line.s, ",", a + 1)
        plain == ~ line.head /\ a > 1 /\ b > a + 1 /\ b <= Len(line.s)
        tail == IF line.head THEN SyncedTail(line.s)
                ELSE IF plain THEN SyncedTail(SubSeq(line.s, b + 1, Len(line.s)))
                ELSE NoMatch
    IN  IF tail.matched
        THEN [matched |-> TRUE,
              sync_target_sha |-> IF line.head THEN line.H
                                  ELSE RevParse(SubSeq(line.s, 1, a - 1), named),
              timestamp |-> IF line.head THEN <<line.aI>>
                            ELSE SubSeq(line.s, a + 1, b - 1),
              project_id |-> tail.project_id,
              sha |-> tail.sha]
        ELSE NoMatch

\* the first line of lines[from..] on which the generator raises: a line
\* that matches and whose date fromisoformat refuses; 0 when there is none
RECURSIVE FirstBadSynced(_, _, _)
FirstBadSynced(lines, named, from) ==
    IF from > Len(lines) THEN 0
    ELSE LET m == SYNCED_LOG_RE(lines[from], named)
         IN  IF m.matched /\ ~ IsoParses(m.timestamp) THEN from
             ELSE FirstBadSynced(lines, named, from + 1)

\* the commits the generator yields from lines[from..], in order
RECURSIVE YieldSynced(_, _, _)
YieldSynced(lines, named, from) ==
    IF from > Len(lines) THEN <<>>
    ELSE LET m == SYNCED_LOG_RE(lines[from], named)
             rest == YieldSynced(lines, named, from + 1)
         IN  IF m.matched
             THEN <<Commit(m.project_id, m.sha, fromisoformat(m.timestamp[1]),
                           m.sync_target_sha)>> \o rest
             ELSE rest

\* the generator run over lines: the error it raises, if any, and the
\* commits it has yielded until then
ReadSyncedLines(lines, named) ==
    LET bad == FirstBadSynced(lines, named, 1)
    IN  IF bad # 0
        THEN [error |-> "ValueError",
              commits |-> YieldSynced(SubSeq(lines, 1, bad - 1), named, 1)]
        ELSE [error |-> "", commits |-> YieldSynced(lines, named, 1)]

\* get_synced_commits, consumed to its end
get_synced_commits(repo, named) ==
    IF GitLogFails(repo)
    THEN [error |-> "CalledProcessError", commits |-> <<>>]
    ELSE ReadSyncedLines(SyncLogLines(repo, Len(repo)), named)

\* ------------------------------------------------------------ git commands
Unset == ""
EnvKeys == {"GIT_AUTHOR_DATE", "GIT_COMMITTER_DATE", "GIT_COMMIRTER_DATE"}

\* the date git gives a new commit: the environment's, else the clock's
DateFromEnv(env, key) == IF env[key] # Unset THEN env[key] ELSE Clock

\* CHERRY_PICK_HEAD of a repository: the commit a pick was working on when
\* it was left, in a sequence of one; none when no pick is in progress
NoPick == <<>>

\* The lock files in .git that a git killed at its work has left behind
\* and that a later command of main runs into.  PickLock stands for
\* CHERRY_PICK_HEAD.lock and packed-refs.lock, either of which keeps git
\* from removing CHERRY_PICK_HEAD; it is recorded while CHERRY_PICK_HEAD is
\* there.
HeadLock == "HEAD.lock"
IndexLock == "index.lock"
PickLock == "CHERRY_PICK_HEAD.lock"
LockFiles == {HeadLock, IndexLock, PickLock}

\* git commit cannot take the locks it needs: it exits 128 with no effect
GitCommitFails(locks) == HeadLock \in locks \/ IndexLock \in locks

\* CHERRY_PICK_HEAD when git commit has made its commit: removed, unless a
\* lock file is in the way; git then prints an error, exits 0 all the same,
\* and CHERRY_PICK_HEAD stays
PickAfterCommit(pick, locks) == IF PickLock \in locks THEN pick ELSE NoPick

\* `git commit --allow-empty --message=...` run with environment env: the
\* new commit records what is staged in the index, nothing when it is clean.
\* While CHERRY_PICK_HEAD is there git takes the author date from the
\* commit it names, whatever GIT_AUTHOR_DATE says.
GitCommitAllowEmpty(repo, index, pick, message, env) ==
    Append(repo, [subject |-> message,
                  adate |-> IF pick # NoPick THEN pick[1].adate
                            ELSE DateFromEnv(env, "GIT_AUTHOR_DATE"),
                  cdate |-> DateFromEnv(env, "GIT_COMMITTER_DATE"),
                  patch |-> index])

\* the environment add_commit passes: os.environ and the two date entries
AddCommitEnv(environ, commit) ==
    [k \in EnvKeys |->
        IF k \in {"GIT_AUTHOR_DATE", "GIT_COMMIRTER_DATE"}
        THEN isoformat(commit.timestamp)
        ELSE environ[k]]

\* the --message of add_commit
AddCommitMessage(commit) ==
    <<SyncedPrefix>> \o commit.project_id \o <<":">> \o commit.sha

add_commit(repo, index, pick, commit, environ) ==
    GitCommitAllowEmpty(repo, index, pick, AddCommitMessage(commit),
                        AddCommitEnv(environ, commit))

\* length of the longest common prefix of two histories
RECURSIVE CommonPrefix(_, _, _)
CommonPrefix(a, b, n) ==
    IF n < Len(a) /\ n < Len(b) /\ a[n + 1] = b[n + 1]
    THEN CommonPrefix(a, b, n + 1)
    ELSE n

\* a replayed commit is a new object: same message and author date, committer
\* date taken anew
Replay(todo, environ) ==
    [i \in 1..Len(todo) |->
        [todo[i] EXCEPT !.cdate = DateFromEnv(environ, "GIT_COMMITTER_DATE")]]

\* `sha^` names no commit when sha is a root commit: git exits 128; with
\* changes staged in the index git refuses to rebase and exits 1; with a
\* rebase left in progress it refuses to start another and exits 128; with
\* index.lock in the way it exits 1.  Nothing is changed in any of these.
RebaseFails(sha, index, in_progress, locks) ==
    Len(sha) <= 1 \/ index # NoPatch \/ in_progress \/ IndexLock \in locks

\* `git rebase --rebase-merges --onto sha^ sha` with HEAD at repo: the
\* commits of HEAD that are not ancestors of sha (nor sha itself) are
\* replayed onto the parent of sha, except those whose patch a commit of sha
\* that is not on HEAD already makes (an empty commit is never left out).
\* When the parent of sha is where those commits already sit, HEAD is up to
\* date and nothing is rewritten.
RebaseUpToDate(repo, sha) == CommonPrefix(repo, sha, 0) = Len(sha) - 1

\* the commits the rebase picks, in order
RebaseTodo(repo, sha) ==
    LET p == CommonPrefix(repo, sha, 0)
        upstream == SubSeq(sha, p + 1, Len(sha))
        Picked(c) == \/ c.patch = NoPatch
                     \/ \A i \in 1..Len(upstream) : upstream[i].patch # c.patch
    IN  SelectSeq(SubSeq(repo, p + 1, Len(repo)), Picked)

\* HEAD when the rebase has checked out the parent of sha and picked the
\* first k commits of its list
RebasePicked(repo, sha, environ, k) ==
    SubSeq(sha, 1, Len(sha) - 1)
        \o Replay(SubSeq(RebaseTodo(repo, sha), 1, k), environ)

GitRebaseOnto(repo, sha, environ) ==
    IF RebaseUpToDate(repo, sha) THEN repo
    ELSE RebasePicked(repo, sha, environ, Len(RebaseTodo(repo, sha)))

remove_commit(repo, sha, environ) == GitRebaseOnto(repo, sha, environ)

\* the index when the rebase has read the tree of the parent of sha into
\* it and HEAD is still at repo
Rewound(repo, sha) == Staging(Tree(repo), Tree(SubSeq(sha, 1, Len(sha) - 1)))

\* a rebase that has commits to rewrite cannot move HEAD with HEAD.lock in
\* the way: it exits 1 and leaves the index rewound, no rebase in progress
RebaseLocked(repo, sha, locks) ==
    HeadLock \in locks /\ ~ RebaseUpToDate(repo, sha)

\* git takes a hex string of MinAbbrev digits or more for the one object
\* whose hash starts with it
MinAbbrev == 4

\* the objects of a source repository, on the branch or off it, that the
\* hex string sha names
ObjectsNamed(repo, objects, sha) ==
    {H \in {repo[i].H : i \in 1..Len(repo)} \cup objects :
        \/ H = sha
        \/ /\ Len(sha) >= MinAbbrev
           /\ Len(sha) < Len(H)
           /\ SubSeq(H, 1, Len(sha)) = sha}

\* `git log --pretty=reference sha^!` in a source repository: exits 128
\* unless sha names exactly one commit object there
SummaryFails(repo, objects, sha) ==
    Cardinality(ObjectsNamed(repo, objects, sha)) # 1

\* ------------------------------------------------------------ exit status
\* main returns: the interpreter exits with status 0
SuccessStatus == 0
\* sys.exit("Quitting."): the string goes to stderr and the status is 1
QuitStatus == 1
\* an exception that nothing catches: traceback and status 1
UnhandledStatus == 1
\* KeyboardInterrupt that nothing catches: the interpreter ends itself by
\* SIGINT, which a shell reports as 128 + 2
InterruptStatus == 130

\* ------------------------------------------------------------- the inputs
Alpha == <<"a", "l", "p", "h", "a">>
Beta == <<"b", "e", "t", "a">>
MyProj == <<"m", "y", "-", "p">>

Sha1 == <<"a", "1", "c", "3", "e">>
Sha2 == <<"b", "2", "d", "4", "f">>

T1 == "2024-01-01T00:00:00+00:00"
T2 == "2024-01-02T03:00:00+01:00"

Included == <<"a@x.com">>
Excluded == <<"A@x.com">>
NoEmail == <<>>
\* an address that is no member of include-emails and spells the end of one
\* log line and the start of another
ForgedAddress == <<"a@x.com", ",", T2, LineSep, "d", ",", "b", " ", "c">>

Roots == {"r1", "r2"}

Project(id, git_root) == [id |-> id, git_root |-> git_root]

\* the configurations read_config returns
Configs ==
    {[include_emails |-> {Included}, projects |-> ps] :
        ps \in {<<Project(Alpha, "r1")>>,
                <<Project(Alpha, "r1"), Project(Beta, "r2")>>,
                <<Project(MyProj, "r1")>>}}

SourceCommit(H, ae, aI) == [H |-> H, ae |-> ae, aI |-> aI]

SourceCommits ==
    {SourceCommit(Sha1, Included, T1), SourceCommit(Sha1, Excluded, T1),
     SourceCommit(Sha2, Included, T2), SourceCommit(Sha2, NoEmail, T2)}

\* the source repositories: up to MaxSrcLen commits, no sha twice
SourceRepos ==
    UNION {{r \in [1..n -> SourceCommits] :
               \A i, j \in 1..n : r[i].H = r[j].H => i = j} : n \in 0..MaxSrcLen}

ConfiguredRoots(cfg) == {cfg.projects[i].git_root : i \in 1..Len(cfg.projects)}

RECURSIVE SumLen(_, _)
SumLen(rs, roots) ==
    IF roots = {} THEN 0
    ELSE LET r == CHOOSE x \in roots : TRUE
         IN  Len(rs[r]) + SumLen(rs, roots \ {r})

\* repositories whose tip is a commit by ForgedAddress
ForgedRepos ==
    {r \in {<<SourceCommit(Sha2, ForgedAddress, T2)>>,
            <<SourceCommit(Sha1, Included, T1),
              SourceCommit(Sha2, ForgedAddress, T2)>>} : Len(r) <= MaxSrcLen}

\* the repositories at the configured roots hold MaxSrcLen commits at most
\* in all; a root that is not configured is left empty; the second root
\* holds no other sha than Sha1, the one its project may share with the
\* first; a repository of ForgedRepos is at the first root, next to an
\* empty second one
SourceWorlds(cfg) ==
    {rs \in [Roots -> SourceRepos] :
        /\ \A r \in Roots \ ConfiguredRoots(cfg) : rs[r] = <<>>
        /\ \A i \in 1..Len(rs["r2"]) : rs["r2"][i].H = Sha1
        /\ SumLen(rs, Roots) <= MaxSrcLen}
        \cup {[r \in Roots |-> IF r = "r1" THEN f ELSE <<>>] : f \in ForgedRepos}

\* the commit objects a source repository still holds off its branch: the
\* tip Sha2 of the first root may have been amended away
OffBranch(rs) ==
    {objs \in [Roots -> SUBSET {Sha2}] :
        /\ objs["r2"] = {}
        /\ \A i \in 1..Len(rs["r1"]) : rs["r1"][i].H \notin objs["r1"]
        /\ objs["r1"] # {} => rs["r1"] # <<>>}

SyncCommit(subject, adate, patch) ==
    [subject |-> subject, adate |-> adate, cdate |-> Earlier, patch |-> patch]

Mirror(project_id, sha, adate) ==
    SyncCommit(<<SyncedPrefix>> \o project_id \o <<":">> \o sha, adate, NoPatch)

\* a commit made by hand that adds a file
Fix == SyncCommit(<<"f", "i", "x">>, T1, Readme)

\* what the sync repository may hold before the first run: mirror commits of
\* earlier runs and a commit made by hand
SyncCommits ==
    {Mirror(Alpha, Sha1, T1), Mirror(Alpha, Sha2, T2), Mirror(Beta, Sha1, T1),
     Fix}

\* the index of the sync repository's work tree before the first run
Indexes == {NoPatch, Staged}

\* the object whose hash FixHash is: Fix, made on top of a mirror
FixHistory == <<Mirror(Alpha, Sha1, T1), Fix>>

\* the objects of the sync repository that text can name
NamedObjects == [t \in {FixHash} |-> FixHistory]

\* commits written by hand whose subject, after a line boundary, spells a
\* line of the sync log: one that names Fix as the mirror of alpha's Sha1,
\* and one whose date is no date
ForgedMirror(target, date) ==
    SyncCommit(<<"x", LineSep>> \o target \o <<",", date, ",", SyncedPrefix>>
                   \o Alpha \o <<":">> \o Sha1,
               T2, NoPatch)

\* a mirror written by hand with an abbreviated sha
AbbreviatedMirror == Mirror(Alpha, SubSeq(Sha1, 1, MinAbbrev), T1)

\* sync repositories that hold such commits; a commit that names FixHash
\* comes after the object it names
HandMadeRepos ==
    {r \in {FixHistory \o <<ForgedMirror(<<FixHash>>, T1)>>,
            FixHistory \o <<ForgedMirror(<<"z">>, "yesterday")>>,
            <<Fix, AbbreviatedMirror>>} : Len(r) <= MaxSyncLen}

\* up to MaxSyncLen commits, no two alike
SyncRepos ==
    UNION {{r \in [1..n -> SyncCommits] : \A i, j \in 1..n : r[i] = r[j] => i = j} :
              n \in 0..MaxSyncLen}
        \cup HandMadeRepos

\* os.environ of the runs, as far as git reads it
Environs ==
    {[k \in EnvKeys |-> IF k = "GIT_COMMITTER_DATE" THEN d ELSE Unset] :
        d \in {Unset, T1}}

\* what the operator may type at the prompt
Answers == {"y", "n", "", "Y", "yes", " y"}

\* ------------------------------------------------------------------ state
VARIABLES
    config,          \* the configuration
    repos,           \* git-root -> source repository
    sync_repo,       \* the history of HEAD in the sync repository
    environ,         \* os.environ of the runs
    run,             \* number of runs started
    pc,              \* where main is
    idx,             \* position in the loop main is in
    source_commits,  \* main's set of that name
    synced_commits,  \* main's set of that name
    commits_to_remove, \* main's set of that name, in its iteration order
    commits_to_create, \* source_commits - synced_commits of line 171, in its iteration order
    answer,          \* the line read at the prompt
    outcome,         \* how the run ended
    exit_code,       \* the exit status of the process
    trace,           \* the external commands and the prompt of this run, in order
    removed,         \* the hashes given to remove_commit in this run
    added,           \* the commits add_commit has committed in this run
    sync_at_start,   \* sync_repo when the run started
    previous,        \* how the run before this one ended, see Ending
    objects,         \* git-root -> commit objects off the branch
    sync_index,      \* what is staged in the sync repository's index
    rebasing,        \* a rebase was left in progress in the sync repository
    cherry_pick_head, \* CHERRY_PICK_HEAD of the sync repository
    locks            \* the lock files left in the sync repository, see LockFiles

vars == <<config, repos, sync_repo, environ, run, pc, idx, source_commits,
          synced_commits, commits_to_remove, commits_to_create, answer,
          outcome, exit_code, trace, removed, added, sync_at_start, previous,
          objects, sync_index, rebasing, cherry_pick_head, locks>>

\* the sync repository next to its HEAD
sync_state == <<sync_index, rebasing, cherry_pick_head, locks>>

world == <<config, repos, objects, environ>>

\* the last command of a trace
NoCommand == ""
Last(t) == IF t = <<>> THEN NoCommand ELSE t[Len(t)]

NoAnswer == "<none>"
NoExit == -1

\* the circumstances of the runs depart from the plain ones (no committer
\* date in the environment, a clean index, no object off a branch, no commit
\* with a patch on the sync branch, no line boundary in an author address)
\* in one respect at most
Plain(env, index, objs, branch, rs) ==
    Cardinality({k \in {"environ", "index", "objects", "branch", "address"} :
        \/ k = "environ" /\ env["GIT_COMMITTER_DATE"] # Unset
        \/ k = "index" /\ index # NoPatch
        \/ k = "objects" /\ \E r \in Roots : objs[r] # {}
        \/ k = "branch" /\ \E i \in 1..Len(branch) : branch[i].patch # NoPatch
        \/ k = "address" /\ \E r \in Roots : \E i \in 1..Len(rs[r]) :
                                 LineSep \in {rs[r][i].ae[j] : j \in 1..Len(rs[r][i].ae)}
        }) <= 1

\* how the run that has just ended did end, as far as a later run is asked
\* about: completed; stopped in the creation loop, by an interrupt or by a
\* failed add_commit, after at least one add_commit was issued; or stopped
\* elsewhere.  NoRun before the first run.
NoRun == ""
Ending ==
    IF run = 0 THEN NoRun
    ELSE IF outcome = "completed" THEN "completed"
    ELSE IF /\ outcome \in {"KeyboardInterrupt", "CalledProcessError"}
            /\ Last(trace) = "add"
    THEN "stopped creating"
    ELSE "stopped"

Init ==
    /\ config \in Configs
    /\ repos \in SourceWorlds(config)
    /\ objects \in OffBranch(repos)
    /\ sync_repo \in SyncRepos
    /\ sync_index \in Indexes
    /\ rebasing = FALSE
    /\ cherry_pick_head = NoPick
    /\ locks = {}
    /\ environ \in Environs
    /\ Plain(environ, sync_index, objects, sync_repo, repos)
    /\ run = 0
    /\ pc = "idle"
    /\ idx = 0
    /\ source_commits = {}
    /\ synced_commits = {}
    /\ commits_to_remove = <<>>
    /\ commits_to_create = <<>>
    /\ answer = NoAnswer
    /\ outcome = ""
    /\ exit_code = NoExit
    /\ trace = <<>>
    /\ removed = <<>>
    /\ added = <<>>
    /\ sync_at_start = sync_repo
    /\ previous = NoRun

\* an exception leaves main: nothing catches it
Raise(error) ==
    /\ pc' = "exited"
    /\ outcome' = error
    /\ exit_code' = UnhandledStatus

\* a new process runs main (lines 175-176, 134-139)
StartRun ==
    /\ pc \in {"idle", "exited"}
    /\ run < MaxRuns
    /\ run' = run + 1
    /\ pc' = "read_source"
    /\ idx' = 1
    /\ source_commits' = {}
    /\ synced_commits' = {}
    /\ commits_to_remove' = <<>>
    /\ commits_to_create' = <<>>
    /\ answer' = NoAnswer
    /\ outcome' = ""
    /\ exit_code' = NoExit
    /\ trace' = <<>>
    /\ removed' = <<>>
    /\ added' = <<>>
    /\ sync_at_start' = sync_repo
    /\ previous' = Ending
    /\ UNCHANGED <<world, sync_repo, sync_state>>

\* one iteration of the loop of lines 140-145
ReadSource ==
    /\ pc = "read_source"
    /\ idx <= Len(config.projects)
    /\ LET project == config.projects[idx]
           got == get_commits_from_source(project.id, config.include_emails,
                                          repos[project.git_root])
       IN  /\ trace' = Append(trace, "log_source")
           /\ IF got.error # ""
              THEN /\ Raise(got.error)
                   /\ source_commits' = SetUpdate(source_commits, got.commits)
                   /\ UNCHANGED idx
              ELSE /\ source_commits' = SetUpdate(source_commits, got.commits)
                   /\ idx' = idx + 1
                   /\ UNCHANGED <<pc, outcome, exit_code>>
    /\ UNCHANGED <<world, sync_repo, run, synced_commits,
                   commits_to_remove, commits_to_create, answer, removed,
                   added, sync_at_start, previous, sync_state>>

\* lines 147-153: read the sync log, take the orphans
ReadSynced ==
    /\ pc = "read_source"
    /\ idx > Len(config.projects)
    /\ LET got == get_synced_commits(sync_repo, NamedObjects)
           synced == SetUpdate({}, got.commits)
           to_remove == SetDifference(synced, source_commits)
       IN  /\ trace' = Append(trace, "log_synced")
           /\ IF got.error # ""
              THEN /\ Raise(got.error)
                   /\ UNCHANGED <<idx, synced_commits, commits_to_remove>>
              ELSE /\ synced_commits' = synced
                   /\ commits_to_remove' \in Orders(to_remove)
                   /\ pc' = IF to_remove # {} THEN "summary" ELSE "assert"
                   /\ idx' = 1
                   /\ UNCHANGED <<outcome, exit_code>>
    /\ UNCHANGED <<world, sync_repo, run, source_commits,
                   commits_to_create, answer, removed, added, sync_at_start,
                   previous, sync_state>>

\* project_id_to_git_root of lines 151-153; a later project of the same id
\* replaces an earlier one
HasRoot(cfg, project_id) ==
    \E i \in 1..Len(cfg.projects) : cfg.projects[i].id = project_id

project_id_to_git_root(cfg, project_id) ==
    LET last == CHOOSE i \in 1..Len(cfg.projects) :
                    /\ cfg.projects[i].id = project_id
                    /\ \A j \in (i + 1)..Len(cfg.projects) :
                           cfg.projects[j].id # project_id
    IN  cfg.projects[last].git_root

\* one iteration of the loop of lines 156-160
Summary ==
    /\ pc = "summary"
    /\ idx <= Len(commits_to_remove)
    /\ LET commit == commits_to_remove[idx]
       IN  IF ~ HasRoot(config, commit.project_id)
           THEN /\ Raise("KeyError")
                /\ UNCHANGED <<idx, trace>>
           ELSE /\ trace' = Append(trace, "summary")
                /\ IF LET root == project_id_to_git_root(config, commit.project_id)
                      IN  SummaryFails(repos[root], objects[root], commit.sha)
                   THEN /\ Raise("CalledProcessError")
                        /\ UNCHANGED idx
                   ELSE /\ idx' = idx + 1
                        /\ UNCHANGED <<pc, outcome, exit_code>>
    /\ UNCHANGED <<world, sync_repo, run, source_commits,
                   synced_commits, commits_to_remove, commits_to_create,
                   answer, removed, added, sync_at_start, previous, sync_state>>

\* mutant of Confirmed: the answer is compared without regard to case
ConfirmedAnyCase(line) == line \in {"y", "Y"}

\* the test of line 162
Confirmed(line) == line = "y"

\* lines 161-163: the prompt.  input() returns a line, or raises EOFError
\* when standard input is at its end.
Prompt ==
    /\ pc = "summary"
    /\ idx > Len(commits_to_remove)
    /\ trace' = Append(trace, "input")
    /\ \/ \E line \in Answers :
            /\ answer' = line
            /\ IF Confirmed(line)
               THEN /\ pc' = "remove"
                    /\ idx' = 1
                    /\ UNCHANGED <<outcome, exit_code>>
               ELSE /\ pc' = "exited"
                    /\ outcome' = "Quitting."
                    /\ exit_code' = QuitStatus
                    /\ UNCHANGED idx
       \/ /\ Raise("EOFError")
          /\ UNCHANGED <<idx, answer>>
    /\ UNCHANGED <<world, sync_repo, run, source_commits,
                   synced_commits, commits_to_remove, commits_to_create,
                   removed, added, sync_at_start, previous, sync_state>>

\* one iteration of the loop of lines 165-166
Remove ==
    /\ pc = "remove"
    /\ idx <= Len(commits_to_remove)
    /\ LET sha == commits_to_remove[idx].sync_target_sha
       IN  /\ trace' = Append(trace, "remove")
           /\ removed' = Append(removed, sha)
           /\ IF RebaseFails(sha, sync_index, rebasing, locks)
              THEN /\ Raise("CalledProcessError")
                   /\ UNCHANGED <<idx, sync_repo, sync_index>>
              ELSE IF RebaseLocked(sync_repo, sha, locks)
              THEN /\ Raise("CalledProcessError")
                   /\ sync_index' = Rewound(sync_repo, sha)
                   /\ UNCHANGED <<idx, sync_repo>>
              ELSE /\ sync_repo' = remove_commit(sync_repo, sha, environ)
                   /\ idx' = idx + 1
                   /\ UNCHANGED <<pc, outcome, exit_code, sync_index>>
    /\ UNCHANGED <<world, run, source_commits, synced_commits,
                   commits_to_remove, commits_to_create, answer, added,
                   sync_at_start, previous, rebasing, cherry_pick_head, locks>>

\* the condition asserted at lines 168-170
\* the comparison left out: nothing stops the creation loop
ShaSetsAgreeAlways(source, synced) == TRUE

ShaSetsAgree(source, synced) ==
    ShaSet(SetDifference(source, synced)) = ShaSet(source) \ ShaSet(synced)

\* lines 168-171: the assertion, then the set the last loop iterates
AssertShas ==
    /\ \/ pc = "assert"
       \/ pc = "remove" /\ idx > Len(commits_to_remove)
    /\ IF ShaSetsAgree(source_commits, synced_commits)
       THEN /\ commits_to_create' \in Orders(SetDifference(source_commits, synced_commits))
            /\ pc' = "add"
            /\ idx' = 1
            /\ UNCHANGED <<outcome, exit_code>>
       ELSE /\ Raise("AssertionError")
            /\ UNCHANGED <<idx, commits_to_create>>
    /\ UNCHANGED <<world, sync_repo, run, source_commits,
                   synced_commits, commits_to_remove, answer, trace, removed,
                   added, sync_at_start, previous, sync_state>>

\* one iteration of the loop of lines 171-172
Add ==
    /\ pc = "add"
    /\ idx <= Len(commits_to_create)
    /\ ~ GitCommitFails(locks)
    /\ LET commit == commits_to_create[idx]
       IN  /\ trace' = Append(trace, "add")
           /\ added' = Append(added, commit)
           /\ sync_repo' = add_commit(sync_repo, sync_index, cherry_pick_head,
                                      commit, environ)
           /\ sync_index' = NoPatch
           /\ cherry_pick_head' = PickAfterCommit(cherry_pick_head, locks)
           /\ idx' = idx + 1
    /\ UNCHANGED <<world, run, pc, source_commits, synced_commits,
                   commits_to_remove, commits_to_create, answer, outcome,
                   exit_code, removed, sync_at_start, previous, rebasing,
                   locks>>

\* add_commit of line 172 fails: git commit exits non-zero, no commit is
\* made, and check=True raises CalledProcessError
AddFails ==
    /\ pc = "add"
    /\ idx <= Len(commits_to_create)
    /\ trace' = Append(trace, "add")
    /\ Raise("CalledProcessError")
    /\ UNCHANGED <<world, sync_repo, run, idx, source_commits, synced_commits,
                   commits_to_remove, commits_to_create, answer, removed,
                   added, sync_at_start, previous, sync_state>>

\* the command main issues next from where it is, NoCommand when its next
\* step issues none
NextCommand ==
    CASE pc = "read_source" ->
            IF idx <= Len(config.projects) THEN "log_source" ELSE "log_synced"
      [] pc = "summary" ->
            IF idx > Len(commits_to_remove) THEN "input"
            ELSE IF HasRoot(config, commits_to_remove[idx].project_id)
            THEN "summary"
            ELSE NoCommand
      [] pc = "remove" ->
            IF idx <= Len(commits_to_remove) THEN "remove" ELSE NoCommand
      [] pc = "add" ->
            IF idx <= Len(commits_to_create) THEN "add" ELSE NoCommand
      [] OTHER -> NoCommand

\* `git rebase` of remove_commit cut short, sha being the commit to remove
\* and todo the commits to pick: the rebase has not started; or it is in
\* progress with HEAD still at its old place, the index as it was or
\* rewound to the parent of sha; or HEAD is at the parent of sha with the
\* first k picks on top, and the index is clean, or holds the patch of the
\* next pick with CHERRY_PICK_HEAD not written yet or naming that pick, or
\* is clean with the last pick committed and CHERRY_PICK_HEAD still naming
\* it.  A git that was killed leaves the lock file it held.
RebaseCut(sha, todo) ==
    \/ UNCHANGED <<sync_repo, sync_state>>
    \/ /\ ~ RebaseFails(sha, sync_index, rebasing, locks)
       /\ ~ RebaseUpToDate(sync_repo, sha)
       /\ \/ /\ locks' = locks \cup {IndexLock}
             /\ UNCHANGED <<sync_repo, sync_index, rebasing, cherry_pick_head>>
          \/ /\ rebasing' = TRUE
             /\ locks' \in {locks, locks \cup {IndexLock}}
             /\ UNCHANGED <<sync_repo, sync_index, cherry_pick_head>>
          \/ /\ rebasing' = TRUE
             /\ sync_index' = Rewound(sync_repo, sha)
             /\ locks' \in {locks, locks \cup {HeadLock}}
             /\ UNCHANGED <<sync_repo, cherry_pick_head>>
          \/ /\ HeadLock \notin locks
             /\ rebasing' = TRUE
             /\ \E k \in 0..Len(todo) :
                   /\ sync_repo' = RebasePicked(sync_repo, sha, environ, k)
                   /\ \/ /\ locks' \in {{}, {IndexLock}, {HeadLock}}
                         /\ UNCHANGED <<sync_index, cherry_pick_head>>
                      \/ /\ k < Len(todo)
                         /\ sync_index' = todo[k + 1].patch
                         /\ locks' = {}
                         /\ UNCHANGED cherry_pick_head
                      \/ /\ k < Len(todo)
                         /\ sync_index' = todo[k + 1].patch
                         /\ cherry_pick_head' = <<todo[k + 1]>>
                         /\ locks' \in {{}, {IndexLock}, {HeadLock}}
                      \/ /\ k >= 1
                         /\ cherry_pick_head' = <<todo[k]>>
                         /\ locks' \in {{}, {PickLock}}
                         /\ UNCHANGED sync_index

\* `git commit` of add_commit cut short: no commit is made, and a git that
\* was killed leaves the lock file it held; or the commit is made and the
\* index cleared, with HEAD.lock left on a branch, or with CHERRY_PICK_HEAD
\* not removed yet, its lock file left or not
CommitCut(commit) ==
    \/ /\ locks' \in {locks} \cup (IF GitCommitFails(locks) THEN {}
                                  ELSE {locks \cup {HeadLock},
                                        locks \cup {IndexLock}})
       /\ UNCHANGED <<sync_repo, sync_index, rebasing, cherry_pick_head, added>>
    \/ /\ ~ GitCommitFails(locks)
       /\ sync_repo' = add_commit(sync_repo, sync_index, cherry_pick_head,
                                  commit, environ)
       /\ sync_index' = NoPatch
       /\ added' = Append(added, commit)
       /\ \/ /\ ~ rebasing
             /\ locks' = locks \cup {HeadLock}
             /\ UNCHANGED cherry_pick_head
          \/ /\ cherry_pick_head # NoPick
             /\ locks' \in {locks, locks \cup {PickLock}}
             /\ UNCHANGED cherry_pick_head
       /\ UNCHANGED rebasing

\* SIGINT reaches the process anywhere in main: between two commands, or
\* during a command (or the prompt), which is then left where it is:
\*   - the source log is read, and set.update (line 141) has stored the
\*     commits the generator has yielded so far;
\*   - the sync log is read, and line 147 has assigned synced_commits or has
\*     not; line 149 has not run;
\*   - input() waits, or has returned a line that line 162 has not compared;
\*   - git rebase is left as RebaseCut says, git commit as CommitCut says;
\*   - any other command has had no effect.
\* An interrupt that arrives when a command is complete is the command's
\* action followed by this one.
Interrupt ==
    /\ pc \notin {"idle", "exited"}
    /\ \/ UNCHANGED <<trace, removed, added, source_commits, synced_commits,
                      answer, sync_repo, sync_state>>
       \/ /\ NextCommand # NoCommand
          /\ trace' = Append(trace, NextCommand)
          /\ IF NextCommand = "log_source"
             THEN LET project == config.projects[idx]
                      got == get_commits_from_source(project.id, config.include_emails,
                                                     repos[project.git_root])
                  IN  \E k \in 0..Len(got.commits) :
                          source_commits' =
                              SetUpdate(source_commits, SubSeq(got.commits, 1, k))
             ELSE UNCHANGED source_commits
          /\ IF NextCommand = "log_synced"
             THEN LET got == get_synced_commits(sync_repo, NamedObjects)
                  IN  \/ UNCHANGED synced_commits
                      \/ /\ got.error = ""
                         /\ synced_commits' = SetUpdate({}, got.commits)
             ELSE UNCHANGED synced_commits
          /\ IF NextCommand = "input"
             THEN answer' \in Answers \cup {NoAnswer}
             ELSE UNCHANGED answer
          /\ CASE NextCommand = "remove" ->
                    LET sha == commits_to_remove[idx].sync_target_sha
                    IN  /\ removed' = Append(removed, sha)
                        /\ RebaseCut(sha, RebaseTodo(sync_repo, sha))
                        /\ UNCHANGED added
               [] NextCommand = "add" ->
                    /\ CommitCut(commits_to_create[idx])
                    /\ UNCHANGED removed
               [] OTHER ->
                    UNCHANGED <<removed, added, sync_repo, sync_state>>
    /\ pc' = "exited"
    /\ outcome' = "KeyboardInterrupt"
    /\ exit_code' = InterruptStatus
    /\ UNCHANGED <<world, run, idx, commits_to_remove, commits_to_create,
                   sync_at_start, previous>>

\* main returns
Finish ==
    /\ pc = "add"
    /\ idx > Len(commits_to_create)
    /\ pc' = "exited"
    /\ outcome' = "completed"
    /\ exit_code' = SuccessStatus
    /\ UNCHANGED <<world, sync_repo, run, idx, source_commits,
                   synced_commits, commits_to_remove, commits_to_create,
                   answer, trace, removed, added, sync_at_start, previous,
                   sync_state>>

Next ==
    \/ StartRun
    \/ ReadSource
    \/ ReadSynced
    \/ Summary
    \/ Prompt
    \/ Remove
    \/ AssertShas
    \/ Add
    \/ AddFails
    \/ Interrupt
    \/ Finish

Spec == Init /\ [][Next]_vars

TypeOK ==
    /\ pc \in {"idle", "read_source", "summary", "remove", "assert", "add", "exited"}
    /\ run \in 0..MaxRuns
    /\ exit_code \in {NoExit, SuccessStatus, QuitStatus, UnhandledStatus, InterruptStatus}
    /\ locks \subseteq LockFiles
    /\ PickLock \in locks => cherry_pick_head # NoPick /\ rebasing
    /\ cherry_pick_head # NoPick => rebasing

\* ------------------------------------------------------- claim vocabulary
\* message and author date of a sync commit, which a rewrite leaves alone
Content(commit) == <<commit.subject, commit.adate>>

Contents(repo) == [i \in 1..Len(repo) |-> Content(repo[i])]

\* the subsequence of seq at the positions that are not in drop
RECURSIVE Without(_, _, _)
Without(seq, drop, from) ==
    IF from > Len(seq) THEN <<>>
    ELSE (IF from \in drop THEN <<>> ELSE <<seq[from]>>) \o Without(seq, drop, from + 1)

\* what get_synced_commits makes of the log line of the i-th commit of repo
ReadBack(repo, i) ==
    ReadSyncedLines(SyncEntryLines(repo, i), NamedObjects).commits

\* the place in sync_repo of the mirror made by the i-th add_commit of the run
AddedAt(i) == Len(sync_repo) - Len(added) + i

Mutated == removed # <<>> \/ added # <<>>

\* some line git has written to some configured project's log is not of
\* the form hash,email,timestamp
Malformed ==
    \E i \in 1..Len(config.projects) :
        LET repo == repos[config.projects[i].git_root]
        IN  \E n \in 1..Len(repo) : ~ SOURCE_LOG_RE(SourceLine(repo[n])).matched

Count(seq, t) == Cardinality({i \in 1..Len(seq) : seq[i] = t})

\* two configured projects contribute a commit of the same sha
Collision ==
    \E c, d \in source_commits : c.project_id # d.project_id /\ c.sha = d.sha

\* ------------------------------------------------------------------ claims

\* C1: idempotence across runs.  A run that follows a run that completed,
\* the sources being the same, calls add_commit zero times.
C1_Idempotence == (run >= 2 /\ previous = "completed") => added = <<>>

\* C2: round-trip law.  The mirror commit written by add_commit(c), read back
\* by get_synced_commits, gives exactly one Commit, and it equals c.
C2_RoundTrip ==
    \A i \in 1..Len(added) :
        LET back == ReadBack(sync_repo, AddedAt(i))
        IN  Len(back) = 1 /\ CommitEq(back[1], added[i])

\* C3: collision guard.  A run in which two distinct projects contribute a
\* commit of the same sha never reaches add_commit and never completes.
C3_CollisionGuard == Collision => (pc # "add" /\ outcome # "completed")

\* C4: a run that ends with the sha-set assertion failing has issued no
\* remove_commit and no add_commit; the sync history is as at its start.
C4_AssertBeforeActing ==
    outcome = "AssertionError" => (~ Mutated /\ sync_repo = sync_at_start)

\* C5: remove is exact.  When the removal loop has ended, every call having
\* succeeded, the branch holds what it held at the start minus the commits
\* named by the sync_target_sha of the members of to_remove, in order.
C5_RemoveExact ==
    (pc = "remove" /\ idx > Len(commits_to_remove)) =>
        Contents(sync_repo) =
            Without(Contents(sync_at_start),
                    {Len(commits_to_remove[i].sync_target_sha) :
                         i \in 1..Len(commits_to_remove)}, 1)

\* C6: declined confirmation.  Once a line other than "y" was read at the
\* prompt the run has ended with no remove_commit and no add_commit and the
\* sync repository as it was; a remove_commit implies the answer "y".
C6_DeclinedUnchanged ==
    /\ (answer \notin {NoAnswer, "y"}) =>
           (pc = "exited" /\ ~ Mutated /\ sync_repo = sync_at_start)
    /\ removed # <<>> => answer = "y"

C6_Witness ==
    /\ answer = "Y"
    /\ pc = "exited"
    /\ commits_to_remove # <<>>
    /\ SetDifference(source_commits, synced_commits) # {}
    /\ \E i \in 1..Len(sync_repo) : ReadBack(sync_repo, i) # <<>>

\* C7: exit status.  The status is 0 exactly when the run completed or the
\* operator declined, and non-zero when it ended by an error.
C7_ExitStatus ==
    pc = "exited" => (exit_code = 0 <=> outcome \in {"completed", "Quitting."})

\* C8: create pins both dates and the message.  The mirror of every commit
\* given to add_commit has author date and committer date equal to the
\* commit's timestamp, no file change, and the message
\* Synced from <project_id>:<sha>.
C8_CreatePinsDates ==
    \A i \in 1..Len(added) :
        LET mirror == sync_repo[AddedAt(i)]
        IN  /\ mirror.adate = isoformat(added[i].timestamp)
            /\ mirror.cdate = isoformat(added[i].timestamp)
            /\ mirror.patch = NoPatch
            /\ mirror.subject =
                 <<SyncedPrefix>> \o added[i].project_id \o <<":">> \o added[i].sha

\* C9: first run against a sync repository with no commit.  With n >= 1
\* qualifying source commits of distinct shas the run, when nothing
\* interrupts it, completes and has created exactly n mirror commits.
C9_FirstRunEmptySync ==
    (/\ pc = "exited"
     /\ outcome # "KeyboardInterrupt"
     /\ sync_at_start = <<>>
     /\ Count(trace, "log_synced") = 1
     /\ source_commits # {}
     /\ ~ Collision) =>
        (outcome = "completed" /\ Len(added) = Cardinality(source_commits))

\* C10: malformed input aborts before any mutation: when a line of a source
\* log is not of the form hash,email,timestamp the run ends in a fatal
\* error, unless it is interrupted before, and has mutated nothing; and
\* every log query of the run precedes its first mutating command.
C10_MalformedAborts ==
    /\ Malformed =>
         /\ ~ Mutated
         /\ sync_repo = sync_at_start
         /\ pc \in {"idle", "read_source", "exited"}
         /\ pc = "exited" =>
              /\ exit_code # 0
              /\ outcome \in {"RuntimeError", "CalledProcessError", "KeyboardInterrupt"}
    /\ \A i, j \in 1..Len(trace) :
         (i < j /\ trace[i] \in {"remove", "add"}) =>
             trace[j] \notin {"log_source", "log_synced"}
    /\ Mutated =>
         /\ Count(trace, "log_source") = Len(config.projects)
         /\ Count(trace, "log_synced") = 1

\* C11: e-mail filter.  A source commit whose author e-mail is not in
\* include-emails (compared exactly, case included) gives no member of
\* source_commits, none of to_create, and no add_commit.
FilteredOut(c) ==
    \E i \in 1..Len(config.projects) :
        \E n \in 1..Len(repos[config.projects[i].git_root]) :
            LET commit == repos[config.projects[i].git_root][n]
            IN  /\ commit.ae \notin config.include_emails
                /\ c.project_id = config.projects[i].id
                /\ c.sha = commit.H

C11_EmailFilter ==
    /\ \A c \in source_commits : ~ FilteredOut(c)
    /\ \A i \in 1..Len(commits_to_create) : ~ FilteredOut(commits_to_create[i])
    /\ \A i \in 1..Len(added) : ~ FilteredOut(added[i])

\* C12: orphans are surfaced for confirmation.  A run whose to_remove is not
\* empty goes past the summaries only through the prompt: once it has left
\* the summary loop, not by an interrupt, a summary of every member was
\* printed and the prompt shown.
C12_OrphansSurfaced ==
    (commits_to_remove # <<>> /\ pc # "summary" /\ outcome # "KeyboardInterrupt") =>
        /\ Count(trace, "summary") = Len(commits_to_remove)
        /\ Count(trace, "input") = 1

\* what the spec's Commit equality compares: project id, sha and instant
Key3(c) == <<c.project_id, c.sha, c.timestamp.utc>>

Keys(S) == {Key3(c) : c \in S}

\* C13: only managed mirror commits are removal targets.  Every hash given
\* to remove_commit is the hash of a commit the sync repository held when
\* the run started, whose log entry matches the Synced-from pattern and
\* parses to a Commit equal to no source commit; reading the sync log
\* raises nothing.
C13_OnlyManagedRemoved ==
    /\ \A i \in 1..Len(removed) :
         LET sha == removed[i]
         IN  /\ sha # None
             /\ Len(sha) <= Len(sync_at_start)
             /\ sha = SubSeq(sync_at_start, 1, Len(sha))
             /\ LET back == ReadBack(sync_at_start, Len(sha))
                IN  /\ Len(back) = 1
                    /\ back[1].sync_target_sha = sha
                    /\ Key3(back[1]) \notin Keys(source_commits)
    /\ (sync_at_start # <<>> /\ trace # <<>> /\ trace[Len(trace)] = "log_synced") =>
         outcome \notin {"RuntimeError", "ValueError", "CalledProcessError"}

Range(seq) == {seq[i] : i \in 1..Len(seq)}

\* the sync log was read and line 149 has taken the difference: main is
\* past it, or has ended past it
Reconciled ==
    /\ Count(trace, "log_synced") = 1
    /\ \/ pc \in {"summary", "remove", "assert", "add"}
       \/ pc = "exited" /\ Last(trace) # "log_synced"
       \/ pc = "exited" /\ outcome \in {"completed", "AssertionError", "KeyError"}

\* C14: reconciler set algebra.  With A = source_commits and B =
\* synced_commits compared by (project_id, sha, timestamp): to_remove is
\* B - A, to_create is A - B, the two are disjoint, to_create with A
\* intersect B is A; and when A and B are equal the run prompts for nothing,
\* mutates nothing and, unless it is interrupted, completes.
C14_ReconcilerAlgebra ==
    Reconciled =>
        LET A == Keys(source_commits)
            B == Keys(synced_commits)
            to_remove == Keys(Range(commits_to_remove))
            to_create == Keys(Range(commits_to_create))
        IN  /\ to_remove = B \ A
            /\ Len(commits_to_remove) = Cardinality(B \ A)
            /\ (pc = "add" \/ outcome = "completed") =>
                 /\ to_create = A \ B
                 /\ Len(commits_to_create) = Cardinality(A \ B)
                 /\ to_create \cap to_remove = {}
                 /\ to_create \cup (A \cap B) = A
            /\ A = B =>
                 /\ Count(trace, "input") = 0
                 /\ ~ Mutated
                 /\ sync_repo = sync_at_start
                 /\ pc = "exited" => outcome \in {"completed", "KeyboardInterrupt"}

\* every source commit has its mirror and every mirror its source commit,
\* and the run has completed
C14_Witness ==
    /\ Reconciled
    /\ outcome = "completed"
    /\ source_commits # {}
    /\ Keys(source_commits) = Keys(synced_commits)
    /\ trace = <<"log_source", "log_synced">>

\* the number of commits of repo that are the mirror add_commit writes for c
MirrorsOf(c, repo) ==
    Cardinality({i \in 1..Len(repo) :
        Content(repo[i]) = <<AddCommitMessage(c), isoformat(c.timestamp)>>})

\* the run before this one stopped in the creation loop: interrupted there,
\* or on an add_commit that failed
StoppedCreating == previous = "stopped creating"

\* C15: interrupted creation is resumable.  When a run that stopped in the
\* creation loop is followed by a run that completes, the second run has
\* created exactly the source commits that had no mirror when it started,
\* and every source commit has exactly one mirror commit; the mirrors a
\* stopped run has created are still in the sync repository.
C15_Resumable ==
    /\ (\/ outcome = "KeyboardInterrupt"
        \/ /\ outcome = "CalledProcessError"
           /\ trace # <<>>
           /\ trace[Len(trace)] = "add") =>
          \A i \in 1..Len(added) : MirrorsOf(added[i], sync_repo) >= 1
    /\ (run >= 2 /\ StoppedCreating /\ outcome = "completed") =>
        /\ Keys(Range(added)) =
             {Key3(c) : c \in {d \in source_commits : MirrorsOf(d, sync_at_start) = 0}}
        /\ Len(added) = Cardinality(Keys(Range(added)))
        /\ \A c \in source_commits : MirrorsOf(c, sync_repo) = 1

\* what a run reads back from the sync repository as it is now
SyncedNow == SetUpdate({}, get_synced_commits(sync_repo, NamedObjects).commits)

\* C16: convergence after a confirmed run.  When a run completes (the
\* operator answered y, or there was nothing to remove), reading the sync
\* repository again gives a set equal to source_commits, and a run that
\* directly follows a completed run asks nothing, removes nothing and
\* creates nothing.
C16_Convergence ==
    /\ outcome = "completed" =>
         /\ get_synced_commits(sync_repo, NamedObjects).error = ""
         /\ Keys(SyncedNow) = Keys(source_commits)
    /\ (run >= 2 /\ previous = "completed") =>
         /\ Count(trace, "input") = 0
         /\ commits_to_remove = <<>>
         /\ commits_to_create = <<>>
         /\ removed = <<>>
         /\ added = <<>>

\* the commits this run has passed to add_commit, the failed call included
PassedToAdd ==
    {commits_to_create[i] : i \in 1..Count(trace, "add")}

\* C17: no mirror is created for an already mirrored sha.  No commit
\* passed to add_commit has the sha of a mirror commit in the synced_commits
\* read at the start of the run, whatever its project id or timestamp, the
\* mirrors removed earlier in the same run included.
C17_NoMirrorForMirroredSha ==
    \A c \in PassedToAdd :
        \A m \in synced_commits : m.sha # c.sha

\* a run that has removed a mirror and then called add_commit
C17_Witness ==
    /\ removed # <<>>
    /\ synced_commits # {}
    /\ added # <<>>
    /\ PassedToAdd # {}

====
